---- MODULE Spec2Model ----
(***************************************************************************)
(* Model of the netspeed-monitor GNOME Shell extension (extension.js):     *)
(* the NetworkSpeedIndicator label, its periodic GLib timer, the           *)
(* asynchronous read of /proc/net/dev, the parse of its lines, the rate    *)
(* computation and the formatting of the displayed text.                   *)
(*                                                                         *)
(* Strings that the code inspects character by character (interface names, *)
(* numeric fields) are sequences of one-character strings.  A JavaScript   *)
(* number is a record [nan, v]: v is the integer value, nan marks NaN.     *)
(* A rate (bytes / UPDATE_INTERVAL_SECONDS, then / 1024 per unit) is the   *)
(* exact value [nan, num, den, exp] = (num / den) * 1024^exp; exp > 0 is   *)
(* used only for values of at least 1024, with 1 <= num / den < 1024, so   *)
(* that values beyond the range of TLC's integers can be formatted.        *)
(***************************************************************************)
EXTENDS Integers, Sequences, FiniteSets, TLC

\* ------------------------------------------------------------------ bounds
\* most reads in flight at once
MaxPending == 2
\* most GLib timeout sources ever created
MaxSources == 3
\* most data lines (after the two header lines) of a snapshot
MaxLines == 2

\* --------------------------------------------------------------- constants
UPDATE_INTERVAL_SECONDS == 3

NETWORK_INTERFACES_TO_IGNORE ==
  << <<"l","o">>, <<"v","i","r">>, <<"v","b","o","x">>,
     <<"d","o","c","k","e","r">>, <<"b","r","-">> >>

\* units of _formatSpeedValue
units == <<"B/s", "KB/s", "MB/s", "GB/s">>

\* value of this._updateTimer when no timer is stored (null); GLib source
\* ids are positive, and the code tests the field for truthiness
NoTimer == 0

\* ------------------------------------------------------ JavaScript numbers
Num(n) == [nan |-> FALSE, v |-> n]
NaN == [nan |-> TRUE, v |-> 0]

\* a + b of JavaScript numbers
Plus(a, b) == IF a.nan \/ b.nan THEN NaN ELSE Num(a.v + b.v)

\* a - b of JavaScript numbers
Minus(a, b) == IF a.nan \/ b.nan THEN NaN ELSE Num(a.v - b.v)

\* truthiness of a number: 0 and NaN are falsy
Truthy(a) == ~a.nan /\ a.v # 0

\* a ||= b : the value of a afterwards
OrAssign_keep(a, b) == a
OrAssign(a, b) == IF Truthy(a) THEN a ELSE b

\* a / d for a positive integer d, as an exact fraction
Divide(a, d) == [nan |-> a.nan, num |-> a.v, den |-> d, exp |-> 0]

\* ------------------------------------------------------------- parseInt
Digits == <<"0","1","2","3","4","5","6","7","8","9">>

IsDigit(c) == \E i \in 1..Len(Digits) : Digits[i] = c

DigitValue(c) == (CHOOSE i \in 1..Len(Digits) : Digits[i] = c) - 1

\* the longest prefix of s made of decimal digits
RECURSIVE DigitPrefix(_)
DigitPrefix(s) ==
  IF s = <<>> \/ ~IsDigit(Head(s)) THEN <<>>
  ELSE <<Head(s)>> \o DigitPrefix(Tail(s))

RECURSIVE DigitsValue(_)
DigitsValue(d) ==
  IF d = <<>> THEN 0
  ELSE DigitsValue(SubSeq(d, 1, Len(d) - 1)) * 10 + DigitValue(d[Len(d)])

\* parseInt(n, 10) of a token without white space: optional sign, then the
\* longest run of digits; NaN when there is no digit
parseInt(tok) ==
  LET signed == tok # <<>> /\ Head(tok) \in {"-", "+"}
      neg    == tok # <<>> /\ Head(tok) = "-"
      d      == DigitPrefix(IF signed THEN Tail(tok) ELSE tok)
  IN IF d = <<>> THEN NaN
     ELSE Num(IF neg THEN 0 - DigitsValue(d) ELSE DigitsValue(d))

\* ------------------------------------------------- lines of /proc/net/dev
\* A line is [iface, colon, data]: the text before the first colon
\* (trimmed), whether the line has a colon, and the white-space separated
\* tokens after the colon.  A blank line has iface = <<>> and no colon.
Line(iface, colon, data) == [iface |-> iface, colon |-> colon, data |-> data]

\* interfaceName.startsWith(prefix)
startsWith(s, prefix) ==
  Len(prefix) <= Len(s) /\ SubSeq(s, 1, Len(prefix)) = prefix

_isIgnoredInterface_exact(interfaceName) ==
  \E i \in 1..Len(NETWORK_INTERFACES_TO_IGNORE) :
    interfaceName = NETWORK_INTERFACES_TO_IGNORE[i]
_isIgnoredInterface(interfaceName) ==
  \E i \in 1..Len(NETWORK_INTERFACES_TO_IGNORE) :
    startsWith(interfaceName, NETWORK_INTERFACES_TO_IGNORE[i])

\* the line is blank after trim()
IsBlank(line) == line.iface = <<>> /\ ~line.colon

\* !data : the part after the colon is undefined (no colon) or empty
NoData(line) == ~line.colon \/ line.data = <<>>

\* the loop body reaches a `continue` for this line
Skipped(line) ==
  IsBlank(line) \/ NoData(line) \/ _isIgnoredInterface(line.iface)

\* element i (1-based) of the array of parsed fields; a missing element is
\* undefined, which += turns into NaN
Field(data, i) == IF i <= Len(data) THEN parseInt(data[i]) ELSE NaN

\* the for loop over lines.slice(2), from the totals accumulated so far
RECURSIVE Accumulate(_, _)
Accumulate(lines, totals) ==
  IF lines = <<>> THEN totals
  ELSE LET line == Head(lines)
       IN IF Skipped(line) THEN Accumulate(Tail(lines), totals)
          ELSE Accumulate(Tail(lines),
                 [totalRxBytes |-> Plus(totals.totalRxBytes, Field(line.data, 1)),
                  totalTxBytes |-> Plus(totals.totalTxBytes, Field(line.data, 9))])

\* lines.slice(2)
Slice2_one(lines) == SubSeq(lines, 2, Len(lines))
Slice2(lines) == SubSeq(lines, 3, Len(lines))

\* the value _readNetworkStats resolves with for the decoded contents
ParseStats(lines) ==
  Accumulate(Slice2(lines), [totalRxBytes |-> Num(0), totalTxBytes |-> Num(0)])

\* ---------------------------------------------------- _formatSpeedValue
\* the while loop: divide by 1024 while speed >= 1024 and a unit remains
\* speed >= 1024 (false for NaN)
AtLeast1024(speed) ==
  ~speed.nan /\ (speed.exp >= 1 \/ speed.num \div speed.den >= 1024)

\* speed > 1024 (false for NaN)
Above1024(speed) ==
  /\ ~speed.nan
  /\ \/ speed.exp >= 2
     \/ speed.exp = 1 /\ speed.num > speed.den
     \/ speed.exp = 0 /\ speed.num \div speed.den > 1024
     \/ /\ speed.exp = 0 /\ speed.num \div speed.den = 1024
        /\ speed.num % speed.den > 0

\* speed /= 1024
Over1024(speed) ==
  IF speed.exp > 0 THEN [speed EXCEPT !.exp = @ - 1]
  ELSE [speed EXCEPT !.den = @ * 1024]

RECURSIVE Scale_gt(_, _)
Scale_gt(speed, unitIndex) ==
  IF Above1024(speed) /\ unitIndex < Len(units) - 1
  THEN Scale_gt(Over1024(speed), unitIndex + 1)
  ELSE [speed |-> speed, unitIndex |-> unitIndex]
RECURSIVE Scale(_, _)
Scale(speed, unitIndex) ==
  IF AtLeast1024(speed) /\ unitIndex < Len(units) - 1
  THEN Scale(Over1024(speed), unitIndex + 1)
  ELSE [speed |-> speed, unitIndex |-> unitIndex]

Abs(n) == IF n < 0 THEN 0 - n ELSE n

\* speed.toFixed(1): the number of tenths nearest to |speed| (the larger
\* one on a tie), with the sign of speed
toFixed1(speed) ==
  LET n == Abs(speed.num) * 1024 ^ speed.exp
      tenths == (2 * 10 * n + speed.den) \div (2 * speed.den)
  IN IF speed.nan THEN [nan |-> TRUE, neg |-> FALSE, whole |-> 0, frac |-> <<>>]
     ELSE [nan |-> FALSE, neg |-> speed.num < 0,
           whole |-> tenths \div 10, frac |-> <<tenths % 10>>]

\* `${speed.toFixed(1)} ${units[unitIndex]}` (unitIndex is 0-based)
_formatSpeedValue(bytes) ==
  LET s == Scale(bytes, 0)
  IN [value |-> toFixed1(s.speed), unit |-> units[s.unitIndex + 1]]

\* the text the label is constructed with: '0 B/s' has no decimal digit
InitialSpeedText ==
  [value |-> [nan |-> FALSE, neg |-> FALSE, whole |-> 0, frac |-> <<>>],
   unit |-> "B/s"]

\* `↓ ${downloadSpeed} ↑ ${uploadSpeed}`
Text_swapped(downloadSpeed, uploadSpeed) ==
  [down |-> uploadSpeed, up |-> downloadSpeed]
Text(downloadSpeed, uploadSpeed) == [down |-> downloadSpeed, up |-> uploadSpeed]

\* the value stored in a previous counter at the end of a tick: the total
\* read, whatever the counter held
Stored_keep(held, total) == held
Stored(held, total) == total

\* the rate handed to _formatSpeedValue for one direction
Speed(total, previous) == Divide(Minus(total, previous), UPDATE_INTERVAL_SECONDS)

\* ------------------------------------------------------------ input sets
T0 == <<"0">>
T3 == <<"3">>
T6 == <<"6">>
T12 == <<"1", "2">>
TBad == <<"x">>

eth0 == <<"e","t","h","0">>
br0 == <<"b","r","0">>
lo == <<"l","o">>
brDash1 == <<"b","r","-","1">>
virbr0 == <<"v","i","r","b","r","0">>
vboxnet0 == <<"v","b","o","x","n","e","t","0">>
docker0 == <<"d","o","c","k","e","r","0">>

\* the data of a line with the nine leading columns of /proc/net/dev:
\* receive bytes, seven more receive columns, transmit bytes
Row(rx, tx) == <<rx, T0, T0, T0, T0, T0, T0, T0, tx>>

HeaderLine == Line(<<"h","d","r">>, FALSE, <<>>)

\* lines with all nine fields numeric, of interfaces that are counted
GoodLines ==
  { Line(eth0, TRUE, Row(T0, T3)), Line(eth0, TRUE, Row(T3, T6)),
    Line(eth0, TRUE, Row(T6, T3)), Line(br0, TRUE, Row(T3, T3)),
    Line(eth0, TRUE, Row(T12, T12)) }

\* lines of ignored interfaces, with numeric and with non-numeric data
IgnoredLines ==
  { Line(lo, TRUE, Row(T12, T12)), Line(lo, TRUE, <<TBad>>),
    Line(brDash1, TRUE, Row(T6, T6)), Line(virbr0, TRUE, Row(T3, T0)),
    Line(vboxnet0, TRUE, Row(T0, T3)), Line(docker0, TRUE, Row(T6, T12)) }

\* lines the loop skips for their shape
ShapelessLines ==
  { Line(<<>>, FALSE, <<>>), Line(<<"f","o","o">>, FALSE, <<>>),
    Line(eth0, TRUE, <<>>) }

\* lines of a counted interface with a missing or non-numeric field
MalformedLines ==
  { Line(eth0, TRUE, <<T3>>), Line(eth0, TRUE, Row(TBad, T3)),
    Line(eth0, TRUE, Row(T3, TBad)) }

Lines == GoodLines \cup IgnoredLines \cup ShapelessLines \cup MalformedLines

\* sequences over S of length at most n
SeqsUpTo(S, n) == UNION { [1..k -> S] : k \in 0..n }

\* what the first two lines may hold: a column header, or text that would
\* count, or fail to parse, on a later line
HeaderLines ==
  { HeaderLine, Line(eth0, TRUE, Row(T6, T12)), Line(eth0, TRUE, <<TBad>>) }

\* the decoded contents of the file: two leading lines, then data lines; or
\* a file of fewer than two lines
Snapshots ==
  { <<h1, h2>> \o d : h1 \in HeaderLines, h2 \in HeaderLines,
                      d \in SeqsUpTo(Lines, MaxLines) }
  \cup SeqsUpTo(HeaderLines, 1)

\* the contents the periodic reads see
TickSnapshots ==
  { <<HeaderLine, HeaderLine, Line(lo, TRUE, Row(T12, T12)), l>> :
      l \in { Line(eth0, TRUE, Row(T0, T3)), Line(eth0, TRUE, Row(T3, T6)),
              Line(eth0, TRUE, Row(T6, T3)), Line(eth0, TRUE, <<T3>>),
              Line(eth0, TRUE, Row(TBad, T3)) } }

\* a line of a counted interface whose first or ninth field is missing or
\* is not a decimal integer
IsInteger(tok) == tok # <<>> /\ DigitPrefix(tok) = tok

\* the name starts with one of the prefixes the specification lists
IgnoredPrefixes ==
  { <<"l","o">>, <<"v","i","r">>, <<"v","b","o","x">>,
    <<"d","o","c","k","e","r">>, <<"b","r","-">> }

HasIgnoredPrefix(name) ==
  \E p \in IgnoredPrefixes :
    Len(p) <= Len(name) /\ \A k \in 1..Len(p) : name[k] = p[k]

\* a data line: not blank, with a colon and something after it
IsDataLine(line) == line.iface # <<>> /\ line.colon /\ line.data # <<>>

Malformed(line) ==
  /\ IsDataLine(line) /\ ~HasIgnoredPrefix(line.iface)
  /\ \/ Len(line.data) < 9
     \/ ~IsInteger(line.data[1])
     \/ ~IsInteger(line.data[9])

WellFormed(lines) ==
  \A i \in 3..Len(lines) : ~Malformed(lines[i])

\* ------------------------------------------------------------------ state
VARIABLES
  previousRxBytes,  \* this._previousRxBytes
  previousTxBytes,  \* this._previousTxBytes
  text,             \* this.text, the displayed label
  updateTimer,      \* this._updateTimer
  activeTimers,     \* ids of the GLib timeout sources that are attached
  nextSourceId,     \* id the next GLib source gets
  pending,          \* load_contents_async calls in flight: who issued each
  contents,         \* lines decoded by the last completed read
  stats,            \* <<value>> the last read resolved with, <<>> if none
  lastTick,         \* history: the last completed invocation of _updateSpeed
  lastEvent,        \* history: the last handler that ran
  firstRead,        \* history: who issued the first read of the indicator
  running,          \* invocations of _updateSpeed resumed and not yet ended
  indicator         \* this._indicator of the extension: "null" or "object"

vars == <<previousRxBytes, previousTxBytes, text, updateTimer, activeTimers,
          nextSourceId, pending, contents, stats, lastTick, lastEvent,
          firstRead, running, indicator>>

indicatorVars == <<previousRxBytes, previousTxBytes, text, updateTimer,
                   activeTimers, nextSourceId, pending, lastTick, lastEvent,
                   firstRead, running, indicator>>

NoTick ==
  [kind |-> "none", before |-> <<Num(0), Num(0)>>,
   rate |-> <<Divide(Num(0), UPDATE_INTERVAL_SECONDS),
              Divide(Num(0), UPDATE_INTERVAL_SECONDS)>>,
   stopped |-> FALSE, nth |-> 0, afterFail |-> FALSE,
   failBaseline |-> <<Num(0), Num(0)>>,
   textBefore |-> Text(InitialSpeedText, InitialSpeedText),
   textWrites |-> 0]

\* _init
Init ==
  /\ previousRxBytes = Num(0)
  /\ previousTxBytes = Num(0)
  /\ text = Text(InitialSpeedText, InitialSpeedText)
  /\ updateTimer = NoTimer
  /\ activeTimers = {}
  /\ nextSourceId = 1
  /\ pending = <<>>
  /\ contents = <<>>
  /\ stats = <<>>
  /\ lastTick = NoTick
  /\ lastEvent = "init"
  /\ firstRead = "none"
  /\ running = <<>>
  /\ indicator = "null"

\* the sequence s without its element i
Remove(s, i) == SubSeq(s, 1, i - 1) \o SubSeq(s, i + 1, Len(s))

\* ---------------------------------------------------------------- actions
\* _updateSpeed() up to its await: _readNetworkStats() calls
\* load_contents_async, and the invocation waits for the read
issueRead(origin) ==
  /\ pending' = Append(pending, origin)
  /\ firstRead' = IF firstRead = "none" THEN origin ELSE firstRead

\* startUpdate(): the initial _updateSpeed() issues a read, then the timer
\* is created and its id stored
startUpdate_timerOnly ==
  /\ Len(pending) < MaxPending
  /\ nextSourceId <= MaxSources
  /\ activeTimers' = activeTimers \cup {nextSourceId}
  /\ updateTimer' = nextSourceId
  /\ nextSourceId' = nextSourceId + 1
  /\ lastEvent' = "start"
  /\ UNCHANGED <<firstRead, pending, running, indicator, previousRxBytes,
                 previousTxBytes, text, contents, stats, lastTick>>
startUpdate ==
  /\ Len(pending) < MaxPending
  /\ nextSourceId <= MaxSources
  /\ issueRead("start")
  /\ activeTimers' = activeTimers \cup {nextSourceId}
  /\ updateTimer' = nextSourceId
  /\ nextSourceId' = nextSourceId + 1
  /\ lastEvent' = "start"
  /\ UNCHANGED <<running, indicator, previousRxBytes, previousTxBytes, text, contents, stats, lastTick>>

\* stopUpdate()
\* lastEvent tells the branch taken: "stop" removed the stored source,
\* "stopIdle" found no handle, "stopMissed" handed GLib.source_remove an id
\* that is not attached (GLib reports an error)
stopUpdate_keepsHandle ==
  /\ IF updateTimer # NoTimer
     THEN /\ activeTimers' = activeTimers \ {updateTimer}
          /\ updateTimer' = updateTimer
          /\ lastEvent' = IF updateTimer \in activeTimers
                          THEN "stop" ELSE "stopMissed"
     ELSE /\ UNCHANGED <<activeTimers, updateTimer>>
          /\ lastEvent' = "stopIdle"
  /\ UNCHANGED <<firstRead, running, indicator, previousRxBytes,
                 previousTxBytes, text, nextSourceId, pending, contents,
                 stats, lastTick>>
stopUpdate ==
  /\ IF updateTimer # NoTimer
     THEN /\ activeTimers' = activeTimers \ {updateTimer}
          /\ updateTimer' = NoTimer
          /\ lastEvent' = IF updateTimer \in activeTimers
                          THEN "stop" ELSE "stopMissed"
     ELSE /\ UNCHANGED <<activeTimers, updateTimer>>
          /\ lastEvent' = "stopIdle"
  /\ UNCHANGED <<firstRead, running, indicator, previousRxBytes, previousTxBytes, text, nextSourceId,
                 pending, contents, stats, lastTick>>

\* the timeout callback of source id: _updateSpeed() issues a read, and the
\* callback returns SOURCE_CONTINUE
timeoutCallback(id) ==
  /\ id \in activeTimers
  /\ Len(pending) < MaxPending
  /\ issueRead("timer")
  /\ lastEvent' = "timer"
  /\ UNCHANGED <<running, indicator, previousRxBytes, previousTxBytes, text, updateTimer,
                 activeTimers, nextSourceId, contents, stats, lastTick>>

\* read i completes with an error: load_contents_finish throws or reports
\* no success, the promise is rejected and _updateSpeed ends at its await
readFailed_reset(i) ==
  /\ i \in 1..Len(pending)
  /\ pending' = Remove(pending, i)
  /\ stats' = <<>>
  /\ previousRxBytes' = Num(0)
  /\ previousTxBytes' = Num(0)
  /\ lastTick' = [NoTick EXCEPT !.kind = "fail",
                    !.before = <<previousRxBytes, previousTxBytes>>,
                    !.stopped = (updateTimer = NoTimer),
                    !.nth = lastTick.nth, !.textBefore = text]
  /\ lastEvent' = "fail"
  /\ UNCHANGED <<firstRead, running, indicator, text, updateTimer, activeTimers, nextSourceId, contents>>
readFailed_stops(i) ==
  /\ i \in 1..Len(pending)
  /\ pending' = Remove(pending, i)
  /\ stats' = <<>>
  /\ activeTimers' = {}
  /\ lastTick' = [NoTick EXCEPT !.kind = "fail",
                    !.before = <<previousRxBytes, previousTxBytes>>,
                    !.stopped = (updateTimer = NoTimer),
                    !.nth = lastTick.nth, !.textBefore = text]
  /\ lastEvent' = "fail"
  /\ UNCHANGED <<firstRead, running, indicator, previousRxBytes, previousTxBytes, text, updateTimer,
                 nextSourceId, contents>>
readFailed(i) ==
  /\ i \in 1..Len(pending)
  /\ pending' = Remove(pending, i)
  /\ stats' = <<>>
  /\ lastTick' = [NoTick EXCEPT !.kind = "fail",
                    !.before = <<previousRxBytes, previousTxBytes>>,
                    !.stopped = (updateTimer = NoTimer),
                    !.nth = lastTick.nth, !.textBefore = text]
  /\ lastEvent' = "fail"
  /\ UNCHANGED <<firstRead, running, indicator, previousRxBytes, previousTxBytes, text, updateTimer,
                 activeTimers, nextSourceId, contents>>

\* read i completes with the lines c: the callback parses them and resolves
\* the promise, and _updateSpeed resumes after its await and runs to its end
readSucceeded(i, c) ==
  /\ i \in 1..Len(pending)
  /\ pending' = Remove(pending, i)
  /\ contents' = c
  /\ LET resolved == ParseStats(c)
         totalRxBytes == resolved.totalRxBytes
         totalTxBytes == resolved.totalTxBytes
         rx == OrAssign(previousRxBytes, totalRxBytes)
         tx == OrAssign(previousTxBytes, totalTxBytes)
         downloadRate == Speed(totalRxBytes, rx)
         uploadRate == Speed(totalTxBytes, tx)
     IN /\ stats' = <<resolved>>
        /\ text' = Text(_formatSpeedValue(downloadRate),
                        _formatSpeedValue(uploadRate))
        /\ previousRxBytes' = Stored(rx, totalRxBytes)
        /\ previousTxBytes' = Stored(tx, totalTxBytes)
        /\ lastTick' = [kind |-> "ok",
                        before |-> <<previousRxBytes, previousTxBytes>>,
                        rate |-> <<downloadRate, uploadRate>>,
                        stopped |-> (updateTimer = NoTimer),
                        nth |-> IF lastTick.nth < 2 THEN lastTick.nth + 1 ELSE 2,
                        afterFail |-> (lastTick.kind = "fail"),
                        failBaseline |-> IF lastTick.kind = "fail"
                                         THEN lastTick.before
                                         ELSE <<previousRxBytes, previousTxBytes>>,
                        textBefore |-> text,
                        textWrites |-> 1]
  /\ lastEvent' = "ok"
  /\ UNCHANGED <<firstRead, running, indicator, updateTimer, activeTimers, nextSourceId>>

Next ==
  \/ startUpdate
  \/ stopUpdate
  \/ \E id \in activeTimers : timeoutCallback(id)
  \/ \E i \in 1..Len(pending) : readFailed(i)
  \/ \E i \in 1..Len(pending) : \E c \in TickSnapshots : readSucceeded(i, c)

\* every sequence of calls of the indicator's methods
Spec == Init /\ [][Next]_vars

\* startUpdate() called only on an indicator that is not running, the way
\* enable() calls it
startWhenIdle == updateTimer = NoTimer /\ startUpdate

NextLifecycle ==
  \/ startWhenIdle
  \/ stopUpdate
  \/ \E id \in activeTimers : timeoutCallback(id)
  \/ \E i \in 1..Len(pending) : readFailed(i)
  \/ \E i \in 1..Len(pending) : \E c \in TickSnapshots : readSucceeded(i, c)

\* the calls alternate: startUpdate, stopUpdate, startUpdate, ...
SpecLifecycle == Init /\ [][NextLifecycle]_vars

\* ------------------------------------------------- the parser on its own
\* the body of the load_contents callback applied to every snapshot
InitParse ==
  /\ previousRxBytes = Num(0)
  /\ previousTxBytes = Num(0)
  /\ text = Text(InitialSpeedText, InitialSpeedText)
  /\ updateTimer = NoTimer
  /\ activeTimers = {}
  /\ nextSourceId = 1
  /\ pending = <<>>
  /\ contents \in Snapshots
  /\ stats = <<>>
  /\ lastTick = NoTick
  /\ lastEvent = "init"
  /\ firstRead = "none"
  /\ running = <<>>
  /\ indicator = "null"

decodeAndParse ==
  /\ stats = <<>>
  /\ stats' = <<ParseStats(contents)>>
  /\ UNCHANGED <<contents, indicatorVars>>

NextParse == decodeAndParse

SpecParse == InitParse /\ [][NextParse]_vars

\* ---------------------------------------------- the formatter on its own
\* the integer m * 1024^e as a rate
Bytes(m, e) == [nan |-> FALSE, num |-> m, den |-> 1, exp |-> e]

\* non-negative integer rates around every unit boundary and beyond GB/s
FormatInputs ==
  { Bytes(m, 0) : m \in {0, 1, 512, 1023, 1024, 1025, 1536, 10239,
                         1048575, 1048576, 5242880} }
  \cup { Bytes(1, 3), Bytes(1023, 3), Bytes(1, 4), Bytes(2, 4), Bytes(5, 2) }

\* the two calls of _formatSpeedValue of one tick, applied to every pair of
\* rates
InitFormat ==
  /\ previousRxBytes = Num(0)
  /\ previousTxBytes = Num(0)
  /\ text = Text(InitialSpeedText, InitialSpeedText)
  /\ updateTimer = NoTimer
  /\ activeTimers = {}
  /\ nextSourceId = 1
  /\ pending = <<>>
  /\ contents = <<>>
  /\ stats = <<>>
  /\ \E x \in FormatInputs, y \in FormatInputs :
       lastTick = [NoTick EXCEPT !.rate = <<x, y>>]
  /\ lastEvent = "init"
  /\ firstRead = "none"
  /\ running = <<>>
  /\ indicator = "null"

formatRates ==
  /\ lastEvent = "init"
  /\ text' = Text(_formatSpeedValue(lastTick.rate[1]),
                  _formatSpeedValue(lastTick.rate[2]))
  /\ lastEvent' = "format"
  /\ UNCHANGED <<previousRxBytes, previousTxBytes, updateTimer, activeTimers,
                 nextSourceId, pending, contents, stats, lastTick, firstRead,
                 running, indicator>>

NextFormat == formatRates

SpecFormat == InitFormat /\ [][NextFormat]_vars

\* ------------------------------------- _updateSpeed one statement at a time
\* An invocation of _updateSpeed is at "await" while its read is in flight
\* (an element of pending) and at "resumed" between the assignment of the
\* text (line 121) and the assignments of lines 124-125 (an element of
\* running).  It gives the thread back to the main loop only at its await.
yieldsAt_anywhere(pc) == TRUE
yieldsAt(pc) == pc = "await"

\* JavaScript runs a handler to completion: the main loop dispatches the
\* next callback only when no invocation is in the middle of its statements
CanRun == \A j \in 1..Len(running) : yieldsAt(running[j].pc)

\* read i completes with the lines c; the invocation resumes after its
\* await and runs lines 106-121: it reads the previous counters, applies
\* ||=, computes the rates and assigns the text
resume(i, c) ==
  /\ CanRun
  /\ i \in 1..Len(pending)
  /\ Len(running) < MaxPending
  /\ pending' = Remove(pending, i)
  /\ contents' = c
  /\ LET resolved == ParseStats(c)
         totalRxBytes == resolved.totalRxBytes
         totalTxBytes == resolved.totalTxBytes
         rx == OrAssign(previousRxBytes, totalRxBytes)
         tx == OrAssign(previousTxBytes, totalTxBytes)
         downloadRate == Speed(totalRxBytes, rx)
         uploadRate == Speed(totalTxBytes, tx)
         shown == Text(_formatSpeedValue(downloadRate),
                       _formatSpeedValue(uploadRate))
     IN /\ stats' = <<resolved>>
        /\ previousRxBytes' = rx
        /\ previousTxBytes' = tx
        /\ text' = shown
        /\ running' = Append(running,
                         [pc |-> "resumed",
                          totals |-> <<totalRxBytes, totalTxBytes>>,
                          before |-> <<previousRxBytes, previousTxBytes>>,
                          used |-> <<rx, tx>>,
                          rate |-> <<downloadRate, uploadRate>>,
                          shown |-> shown,
                          textBefore |-> text])
  /\ lastEvent' = "resume"
  /\ UNCHANGED <<updateTimer, activeTimers, nextSourceId, lastTick, firstRead,
                 indicator>>

\* the resumed invocation j runs lines 124-127 and ends
store(j) ==
  /\ j \in 1..Len(running)
  /\ running' = Remove(running, j)
  /\ previousRxBytes' = Stored(previousRxBytes, running[j].totals[1])
  /\ previousTxBytes' = Stored(previousTxBytes, running[j].totals[2])
  /\ lastTick' = [kind |-> "ok",
                  before |-> running[j].before,
                  rate |-> running[j].rate,
                  stopped |-> (updateTimer = NoTimer),
                  nth |-> IF lastTick.nth < 2 THEN lastTick.nth + 1 ELSE 2,
                  afterFail |-> (lastTick.kind = "fail"),
                  failBaseline |-> IF lastTick.kind = "fail"
                                   THEN lastTick.before
                                   ELSE running[j].before,
                  textBefore |-> running[j].textBefore,
                  textWrites |-> 1]
  /\ lastEvent' = "ok"
  /\ UNCHANGED <<text, updateTimer, activeTimers, nextSourceId, pending,
                 contents, stats, firstRead, indicator>>

NextSteps ==
  \/ CanRun /\ startWhenIdle
  \/ CanRun /\ stopUpdate
  \/ \E id \in activeTimers : CanRun /\ timeoutCallback(id)
  \/ \E i \in 1..Len(pending) : CanRun /\ readFailed(i)
  \/ \E i \in 1..Len(pending) : \E c \in TickSnapshots : resume(i, c)
  \/ \E j \in 1..Len(running) : store(j)

\* the calls alternate as in SpecLifecycle; the handlers are dispatched one
\* at a time
SpecSteps == Init /\ [][NextSteps]_vars

\* ----------------------------------------------------------- the extension
\* enable(): a new indicator is constructed, stored and started
enable ==
  /\ nextSourceId <= MaxSources
  /\ Len(pending) < MaxPending
  /\ indicator' = "object"
  /\ previousRxBytes' = Num(0)
  /\ previousTxBytes' = Num(0)
  /\ text' = Text(InitialSpeedText, InitialSpeedText)
  /\ pending' = Append(pending, "start")
  /\ firstRead' = "start"
  /\ activeTimers' = activeTimers \cup {nextSourceId}
  /\ updateTimer' = nextSourceId
  /\ nextSourceId' = nextSourceId + 1
  /\ lastTick' = NoTick
  /\ lastEvent' = "enable"
  /\ UNCHANGED <<contents, stats, running>>

\* disable(): the indicator, if any, is destroyed, which calls stopUpdate(),
\* and the reference is cleared.  The reads still in flight belong to the
\* destroyed indicator, which the extension no longer holds: they leave
\* the model.
disable_noDestroy ==
  /\ indicator' = "null"
  /\ lastEvent' = "disable"
  /\ UNCHANGED <<activeTimers, updateTimer, pending, previousRxBytes,
                 previousTxBytes, text, nextSourceId, contents, stats,
                 lastTick, firstRead, running>>
disable ==
  /\ IF indicator # "null"
     THEN /\ activeTimers' = IF updateTimer # NoTimer
                             THEN activeTimers \ {updateTimer}
                             ELSE activeTimers
          /\ updateTimer' = NoTimer
          /\ pending' = <<>>
          /\ indicator' = "null"
     ELSE UNCHANGED <<activeTimers, updateTimer, pending, indicator>>
  /\ lastEvent' = "disable"
  /\ UNCHANGED <<previousRxBytes, previousTxBytes, text, nextSourceId,
                 contents, stats, lastTick, firstRead, running>>

\* GNOME Shell alternates the calls: enable() only on a disabled extension
enableWhenDisabled == indicator = "null" /\ enable

NextExtension ==
  \/ enableWhenDisabled
  \/ disable
  \/ \E id \in activeTimers : timeoutCallback(id)
  \/ \E i \in 1..Len(pending) : readFailed(i)
  \/ \E i \in 1..Len(pending) : \E c \in TickSnapshots : readSucceeded(i, c)

SpecExtension == Init /\ [][NextExtension]_vars

\* the timer of an attached source fires every UPDATE_INTERVAL_SECONDS, and
\* every asynchronous read completes
LiveSpec ==
  /\ Spec
  /\ SF_vars(\E id \in activeTimers : timeoutCallback(id))
  /\ WF_vars(\E i \in 1..Len(pending) :
               readFailed(i) \/ \E c \in TickSnapshots : readSucceeded(i, c))

\* ----------------------------------------------------------------- claims
previous == <<previousRxBytes, previousTxBytes>>

\* the aggregate of the last resolved read, as a pair
Totals == <<stats[1].totalRxBytes, stats[1].totalTxBytes>>

\* the last completed invocation resolved and ran to its end
TickApplied == lastTick.kind = "ok" /\ stats # <<>>

IsNumberPair(p) == ~p[1].nan /\ ~p[2].nan

\* '0.0 B/s'
ZeroSpeedText ==
  [value |-> [nan |-> FALSE, neg |-> FALSE, whole |-> 0, frac |-> <<0>>],
   unit |-> "B/s"]

\* C1: on every tick with a stored previous sample (both stored counters
\* numbers, contents well formed), a direction whose counter went down gets
\* rate 0, and no computed or displayed rate is negative.
C1_RateNeverNegative ==
  (TickApplied /\ IsNumberPair(lastTick.before) /\ WellFormed(contents)) =>
    \A d \in 1..2 :
      ~lastTick.rate[d].nan =>
        /\ lastTick.rate[d].num >= 0
        /\ (/\ ~lastTick.before[d].nan
            /\ Totals[d].v < lastTick.before[d].v) => lastTick.rate[d].num = 0
        /\ ~text.down.value.neg /\ ~text.up.value.neg

\* C2: once stopUpdate has returned (no timer handle is stored), no
\* invocation of _updateSpeed runs to its end, so none updates the text or
\* the previous counters, also when the read was in flight at the stop.
C2_NoUpdateAfterStop ==
  ~(TickApplied /\ lastTick.stopped /\ WellFormed(contents))

\* C3: at most one timeout source is attached at any time, and none is
\* attached when no timer handle is stored (after stopUpdate).
C3_AtMostOneTimer ==
  /\ Cardinality(activeTimers) <= 1
  /\ updateTimer = NoTimer => activeTimers = {}

\* C4: on a tick after the first one, with both stored counters numbers and
\* neither counter lower than the stored one, each rate is exactly
\* (current - previous) / UPDATE_INTERVAL_SECONDS, also when a stored
\* counter is 0.
C4_ExactRateAfterFirstTick ==
  (/\ TickApplied
   /\ lastTick.nth >= 2
   /\ IsNumberPair(lastTick.before) /\ IsNumberPair(Totals)
   /\ \A d \in 1..2 : Totals[d].v >= lastTick.before[d].v)
  => \A d \in 1..2 :
       /\ ~lastTick.rate[d].nan
       /\ lastTick.rate[d].num = Totals[d].v - lastTick.before[d].v
       /\ lastTick.rate[d].den = UPDATE_INTERVAL_SECONDS

C6_MalformedReadDiscarded ==
  ~WellFormed(contents) =>
    /\ stats = <<>>
    /\ text = lastTick.textBefore
    /\ previous = lastTick.before

\* C7: a timer firing never starts an invocation while the read of an
\* earlier one is pending, so at most one invocation is in progress.
C7_NoOverlap ==
  lastEvent = "timer" => Len(pending) <= 1

\* C8: the first tick that resolves from well-formed contents on an
\* indicator without a baseline (both stored counters 0) computes and shows
\* rate 0 for both directions, whatever the counters read, and stores the
\* sample as the baseline.
C8_FirstTickRateZero ==
  (/\ TickApplied
   /\ WellFormed(contents)
   /\ lastTick.before = <<Num(0), Num(0)>>)
  => /\ \A d \in 1..2 : ~lastTick.rate[d].nan /\ lastTick.rate[d].num = 0
     /\ text = Text(ZeroSpeedText, ZeroSpeedText)
     /\ previous = Totals

C8_Witness ==
  /\ TickApplied /\ lastTick.nth = 1 /\ WellFormed(contents)
  /\ lastTick.before = <<Num(0), Num(0)>>
  /\ Totals[1].v > 0 /\ Totals[2].v > 0

\* C9: after a failed read, while a timer handle is stored, the timer is
\* still attached and a later firing invokes _updateSpeed again (unless
\* stopUpdate is called first).
C9_FailedTickDoesNotStopScheduler ==
  (lastEvent = "fail" /\ updateTimer # NoTimer)
    ~> (lastEvent = "timer" \/ updateTimer = NoTimer)

C9_Witness ==
  /\ lastEvent = "timer" /\ lastTick.kind = "fail"
  /\ updateTimer # NoTimer /\ updateTimer \in activeTimers
  /\ pending # <<>>

\* the sum of field k over the data lines, after the two header lines, of
\* the interfaces without an ignored prefix
RECURSIVE SumFrom(_, _, _)
SumFrom(lines, i, k) ==
  IF i > Len(lines) THEN 0
  ELSE (IF IsDataLine(lines[i]) /\ ~HasIgnoredPrefix(lines[i].iface)
        THEN DigitsValue(lines[i].data[k]) ELSE 0) + SumFrom(lines, i + 1, k)

\* C10: for well-formed contents the aggregate is the sum over the lines of
\* the interfaces without an ignored prefix; lines of ignored interfaces add
\* nothing, whatever their fields are.
C10_IgnoredContributeZero ==
  (stats # <<>> /\ WellFormed(contents)) =>
    /\ stats[1].totalRxBytes = Num(SumFrom(contents, 3, 1))
    /\ stats[1].totalTxBytes = Num(SumFrom(contents, 3, 9))

C10_Witness ==
  /\ stats # <<>> /\ WellFormed(contents)
  /\ \E i \in 3..Len(contents) :
       /\ IsDataLine(contents[i]) /\ HasIgnoredPrefix(contents[i].iface)
       /\ Len(contents[i].data) >= 9 /\ contents[i].data[1] # T0
  /\ \E i \in 3..Len(contents) :
       IsDataLine(contents[i]) /\ ~HasIgnoredPrefix(contents[i].iface)
  /\ stats[1].totalRxBytes.v > 0

\* C11: stopUpdate is idempotent: after any call, also one made with no
\* handle stored or right after another one, no timer is attached, the
\* handle is null, and GLib.source_remove was not handed an id that is not
\* attached.
C11_StopIdempotent ==
  lastEvent \in {"stop", "stopIdle", "stopMissed"} =>
    /\ updateTimer = NoTimer
    /\ activeTimers = {}
    /\ lastEvent # "stopMissed"

\* stopUpdate ran with no handle stored, on an indicator started before
C11_Witness ==
  /\ lastEvent = "stopIdle" /\ nextSourceId > 1
  /\ updateTimer = NoTimer /\ activeTimers = {}

\* C12: the read of the initial invocation is started before any read of a
\* timer-driven tick: once a timer is attached the first read has been
\* issued, and it was issued by startUpdate.
C12_InitialReadFirst ==
  /\ firstRead # "timer"
  /\ activeTimers # {} => firstRead = "start"

C12_Witness ==
  /\ lastEvent = "timer" /\ firstRead = "start"
  /\ \E i \in 1..Len(pending) : pending[i] = "timer"

\* the names of the units, by index 0..3
UnitNames == <<"B/s", "KB/s", "MB/s", "GB/s">>

\* the integer x = m * 1024^e is below 1024^(k + 1), for k in 0..3
BelowNextUnit(x, k) ==
  IF x.exp = 0 THEN k = 3 \/ x.num < 1024 ^ (k + 1)
  ELSE x.exp <= k

\* the smallest k in 0..3 with x / 1024^k < 1024, or 3 when there is none
UnitIndexOf(x) ==
  IF \E k \in 0..3 : BelowNextUnit(x, k)
  THEN CHOOSE k \in 0..3 :
         BelowNextUnit(x, k) /\ \A j \in 0..(k - 1) : ~BelowNextUnit(x, j)
  ELSE 3

\* x / 1024^k in tenths, rounded to the nearest
TenthsOf(x, k) ==
  IF x.exp = 0 THEN (20 * x.num + 1024 ^ k) \div (2 * 1024 ^ k)
  ELSE 10 * x.num * 1024 ^ (x.exp - k)

Rendered(whole, tenth, unit) ==
  [value |-> [nan |-> FALSE, neg |-> FALSE, whole |-> whole, frac |-> <<tenth>>],
   unit |-> unit]

ExpectedFormat(x) ==
  LET k == UnitIndexOf(x)
      t == TenthsOf(x, k)
  IN Rendered(t \div 10, t % 10, UnitNames[k + 1])

\* C13: a non-negative integer rate is shown in the unit of the smallest
\* index k in 0..3 with v / 1024^k < 1024 (GB/s when there is none), as
\* v / 1024^k with one decimal digit; 1023 is '1023.0 B/s' and 1024 is
\* '1.0 KB/s'.
C13_FormatUnitAndDigit ==
  lastEvent = "format" =>
    /\ text.down = ExpectedFormat(lastTick.rate[1])
    /\ text.up = ExpectedFormat(lastTick.rate[2])
    /\ lastTick.rate[1] = Bytes(1023, 0) => text.down = Rendered(1023, 0, "B/s")
    /\ lastTick.rate[1] = Bytes(1024, 0) => text.down = Rendered(1, 0, "KB/s")
    /\ lastTick.rate[1] = Bytes(1536, 0) => text.down = Rendered(1, 5, "KB/s")
    /\ lastTick.rate[1] = Bytes(5242880, 0) => text.down = Rendered(5, 0, "MB/s")
    /\ lastTick.rate[1] = Bytes(2, 4) => text.down = Rendered(2048, 0, "GB/s")

C13_Witness ==
  /\ lastEvent = "format"
  /\ lastTick.rate[1] = Bytes(1024, 0) /\ text.down = Rendered(1, 0, "KB/s")
  /\ lastTick.rate[2] = Bytes(2, 4) /\ text.up.unit = "GB/s"

\* C15: after every tick that resolved, the previous counters are exactly
\* the totals read in that tick, for rx and for tx; no older sample is kept.
C15_PreviousIsLastSample ==
  TickApplied =>
    /\ previousRxBytes = stats[1].totalRxBytes
    /\ previousTxBytes = stats[1].totalTxBytes

\* a later tick replaced a baseline that differs in both directions
C15_Witness ==
  /\ TickApplied /\ lastTick.nth = 2
  /\ Truthy(lastTick.before[1]) /\ Truthy(lastTick.before[2])
  /\ lastTick.before[1] # Totals[1] /\ lastTick.before[2] # Totals[2]
  /\ previous = Totals

\* C16: a tick that resolved assigns the text once, to the download rate of
\* the tick formatted, then the upload rate of the tick formatted; a tick
\* whose read failed does not assign the text.
C16_TextFromTickRates ==
  /\ TickApplied =>
       /\ text = [down |-> _formatSpeedValue(lastTick.rate[1]),
                  up |-> _formatSpeedValue(lastTick.rate[2])]
       /\ lastTick.textWrites = 1
  /\ lastTick.kind = "fail" =>
       /\ text = lastTick.textBefore
       /\ lastTick.textWrites = 0

C16_Witness ==
  /\ TickApplied /\ WellFormed(contents)
  /\ lastTick.rate[1] # lastTick.rate[2]
  /\ text.down # text.up /\ text # lastTick.textBefore
  /\ text.down.value.frac # <<>>

\* a line that adds to the aggregate when it is not one of the first two
Counted(line) == IsDataLine(line) /\ ~HasIgnoredPrefix(line.iface)

BlankLine == [iface |-> <<>>, colon |-> FALSE, data |-> <<>>]

\* the contents with the first two lines blanked and, of the later lines,
\* only the data lines of interfaces that are not ignored
Stripped(lines) ==
  <<BlankLine, BlankLine>> \o SelectSeq(SubSeq(lines, 3, Len(lines)), Counted)

\* C17: the first two lines never add to the aggregate, whatever they hold,
\* and a later line that is blank, has no colon or has nothing after its
\* colon adds nothing: the aggregate is that of the remaining lines of the
\* interfaces that are not ignored.
C17_HeadersAndShapelessSkipped ==
  stats # <<>> => stats[1] = ParseStats(Stripped(contents))

C17_Witness ==
  /\ stats # <<>> /\ Len(contents) >= 4
  /\ Counted(contents[1]) /\ Counted(contents[2])
  /\ \E i \in 3..Len(contents) : ~IsDataLine(contents[i])
  /\ \E i \in 3..Len(contents) : Counted(contents[i]) /\ ~Malformed(contents[i])
  /\ ~stats[1].totalRxBytes.nan /\ stats[1].totalRxBytes.v > 0

\* C14: while an invocation is between reading the previous counters and
\* storing the new ones, no step of another invocation or handler runs:
\* the last step taken is its own, the counters and the text are the ones
\* it used and set, and it is the only invocation there.
C14_NoInterleaving ==
  running # <<>> =>
    /\ Len(running) = 1
    /\ lastEvent = "resume"
    /\ previous = running[1].used
    /\ text = running[1].shown

\* an invocation is mid-way while another read is pending and an earlier
\* invocation has stored its sample
C14_Witness ==
  /\ running # <<>> /\ pending # <<>>
  /\ lastTick.kind = "ok"
  /\ running[1].totals # running[1].before

\* C18: with enable and disable alternating, exactly one timer is attached
\* while an indicator is stored, the one in its handle, and none is attached
\* once disable has cleared the reference.
C18_OneTimerWhileEnabled ==
  /\ indicator = "object" =>
       /\ updateTimer # NoTimer
       /\ activeTimers = {updateTimer}
  /\ indicator = "null" =>
       /\ updateTimer = NoTimer
       /\ activeTimers = {}

\* disabled again after a second enable
C18_Witness ==
  /\ lastEvent = "disable" /\ indicator = "null"
  /\ nextSourceId > 2
  /\ activeTimers = {} /\ updateTimer = NoTimer

====
